---- MODULE Spec2Model ----
(***************************************************************************)
(* Model of zenodo_client: the deposition lifecycle driver of api.Zenodo   *)
(* (ensure / create / update, the new-version branch, the upload loop and  *)
(* the version generator) run against a deposition server that keeps one   *)
(* file list, one bucket and one metadata record per deposition; the       *)
(* record resolver and downloader over pystow's local files; and the       *)
(* construction of struct.Metadata.                                        *)
(* One action per HTTP request the driver issues; a failing response ends  *)
(* the running operation with the raised error.                            *)
(*                                                                         *)
(* Specifications: Spec (one caller of the driver), SpecRepeat (the        *)
(* repeated update of the tests), SpecVersion (the version generator       *)
(* alone), SpecConcurrent (two processes in ensure), SpecDownload and      *)
(* SpecLatest (downloads from published lineages), SpecEdited (downloads   *)
(* from lineages edited on the server), SpecMetadata (construction and     *)
(* the body of the creation POST), SpecData (ensure with changing data),   *)
(* SpecSandbox (production and sandbox drivers), SpecMethods (the methods  *)
(* the tests call).                                                        *)
(***************************************************************************)
EXTENDS Integers, Sequences, FiniteSets, TLC

\* ------------------------------------------------------------- bounds
\* Number of driver calls (ensure / create / update) in one behaviour.
MaxCalls == 2
\* Longest paths argument handed to one call.
MaxPaths == 2
\* Number of calls in the repeated-update scenario (SpecRepeat).
MaxRepeatCalls == 3
\* Number of revisions generated in a row on one day (SpecVersion).
MaxRevisions == 11
\* Longest tail a previous label carries after its date (SpecVersion).
MaxSuffix == 3
\* Published versions of the lineage downloads read from (SpecDownload).
MaxRecords == 2
\* Number of download / get_latest_record calls in one behaviour.
MaxDownloads == 2

\* ------------------------------------------------------------- inputs
\* Basenames of the local files a caller can pass.
FileNames == {"A", "B"}
\* Local configuration keys handed to ensure.
Keys == {"k1"}
NoKey == "-"

\* datetime.datetime.today().strftime("%Y-%m-%d"), one character per
\* element; the day does not change within a behaviour.
Today == <<"2", "0", "2", "4", "-", "0", "1", "-", "0", "1">>
\* The "version" key is missing from the metadata.
Absent == <<"<absent>">>
\* A label of another scheme (tests: version="v1").
OtherLabel == <<"v", "1">>

\* Version labels a caller puts into the metadata of create.
InputVersions == {Today, Absent, OtherLabel}

\* A paths argument: distinct local files, in the caller's order.
PathSeqs ==
    {s \in UNION {[1..n -> FileNames] : n \in 0..MaxPaths} :
        \A a, b \in 1..Len(s) : a # b => s[a] # s[b]}

\* ------------------------------------------------ version generator
DigitChars == <<"0", "1", "2", "3", "4", "5", "6", "7", "8", "9">>

\* str.isnumeric() of one character
IsNumeric(c) == \E d \in 1..10 : DigitChars[d] = c

\* int(c) of one numeric character
CharToInt(c) == (CHOOSE d \in 1..10 : DigitChars[d] = c) - 1

\* str(n) for 0 <= n <= 99
IntToStr(n) ==
    IF n < 10 THEN <<DigitChars[n + 1]>>
    ELSE <<DigitChars[(n \div 10) + 1], DigitChars[(n % 10) + 1]>>

\* str.startswith
StartsWith(s, p) == Len(s) >= Len(p) /\ SubSeq(s, 1, Len(p)) = p

\* A generator without the branch that increments the suffix.
_prepare_new_version_first(old_version) ==
    IF old_version = Today THEN Today \o <<"-", "1">> ELSE Today

_prepare_new_version(old_version) ==
    IF old_version = Today
    THEN Today \o <<"-", "1">>
    ELSE IF /\ StartsWith(old_version, Today)
            /\ old_version[Len(old_version) - 1] = "-"
            /\ IsNumeric(old_version[Len(old_version)])
         THEN Today \o <<"-">> \o IntToStr(1 + CharToInt(old_version[Len(old_version)]))
         ELSE Today

\* ------------------------------------------------------------- state
VARIABLES
    depositions,        \* server: depositions[id], one record per deposition
    config,             \* pystow configuration: module -> key -> deposition
                        \* id, 0 = None
    pc,                 \* where the driver stands in the running call
    op,                 \* the running (or last) call and its arguments
    deposition_data,    \* update: res.json() of the first fetch
    new_deposition_id,  \* update: the deposition that is published
    new_deposition_data,\* update: the representation the bucket is read from
    new_version,        \* _update_submitted_deposition_metadata: new label
    bucket,             \* bucket link the uploads go to (id of its owner)
    i,                  \* _upload_files: index of the next path
    rv,                 \* _upload_files: responses collected so far
    log,                \* requests issued by the running (or last) call
    result,             \* what the last call returned or raised
    calls,              \* number of calls started
    writes,             \* history: pystow.write_config calls per key
    old_version,        \* _prepare_new_version: the previous label handed in
    generated,          \* the labels generated from it, one per revision
    procs,              \* processes that call ensure at the same time
    cache,              \* pystow's local files: path -> what was fetched into it
    dl,                 \* the running (or last) download / get_latest_record
                        \* call: fetched counts its content requests, stored
                        \* the local files it wrote
    dl_prev,            \* history: arguments and outcome of the call before it
    workers,            \* download_all: the threads of thread_map, one per file
    dl_calls,           \* number of download calls started
    metadata,           \* the keyword arguments handed to Metadata(...)
    constructed,        \* what the construction did: "ok" or the error raised
    posted,             \* the bodies create sent in its creation POST
    sandbox,            \* self.sandbox of the driver the caller uses
    blobs               \* server: blobs[r][j], the content behind the
                        \* download link of the j-th file entry of record r

driver == <<depositions, config, pc, op, deposition_data, new_deposition_id,
            new_deposition_data, new_version, bucket, i, rv, log, result,
            calls, writes>>

generator == <<old_version, generated>>

downloader == <<cache, dl, dl_prev, workers, dl_calls>>

validation == <<metadata, constructed, posted>>

vars == <<driver, generator, procs, downloader, validation, sandbox, blobs>>

locals == <<deposition_data, new_deposition_id, new_deposition_data,
            new_version, bucket, i, rv>>

\* ------------------------------------------------------------ server
\* The JSON representation of deposition id; links.bucket names the bucket by
\* the deposition that owns it.
RepIn(deps, id) ==
    [id        |-> id,
     concept   |-> deps[id].concept,
     submitted |-> deps[id].submitted,
     state     |-> deps[id].state,
     title     |-> deps[id].title,
     version   |-> deps[id].version,
     files     |-> deps[id].files,
     bucket    |-> id]

Rep(id) == RepIn(depositions, id)

NoRep ==
    [id |-> 0, concept |-> 0, submitted |-> FALSE, state |-> "",
     title |-> "", version |-> Absent, files |-> <<>>, bucket |-> 0]

\* POST /deposit/depositions: a new unsubmitted draft of a new lineage.
ServerCreate(title, version) ==
    Append(depositions,
           [concept |-> Len(depositions) + 1, submitted |-> FALSE,
            state |-> "unsubmitted", title |-> title, version |-> version,
            files |-> <<>>])

\* PUT <bucket>/<name>: the file is added to the deposition owning the bucket.
ServerPutFile(b, name) ==
    [depositions EXCEPT ![b].files = Append(@, name)]

\* POST .../actions/publish
ServerPublish(id) ==
    [depositions EXCEPT ![id].submitted = TRUE, ![id].state = "done"]

\* PUT /deposit/depositions/<id> with {"metadata": ...}
ServerPutMetadata(id, body) ==
    [depositions EXCEPT ![id].title = body.title, ![id].version = body.version]

OpenDrafts(concept) ==
    {d \in 1..Len(depositions) :
        depositions[d].concept = concept /\ ~depositions[d].submitted}

LatestPublished(concept) ==
    CHOOSE d \in 1..Len(depositions) :
        /\ depositions[d].concept = concept /\ depositions[d].submitted
        /\ \A e \in 1..Len(depositions) :
              depositions[e].concept = concept /\ depositions[e].submitted => e <= d

\* links.latest_draft after POST .../actions/newversion on a published
\* deposition: the lineage's open draft, or a fresh one.
LatestDraft(id) ==
    IF OpenDrafts(depositions[id].concept) # {}
    THEN CHOOSE d \in OpenDrafts(depositions[id].concept) : TRUE
    ELSE Len(depositions) + 1

\* The new draft takes the metadata and files of the latest published version.
ServerNewVersion(id) ==
    IF OpenDrafts(depositions[id].concept) # {}
    THEN depositions
    ELSE LET last == depositions[LatestPublished(depositions[id].concept)]
         IN Append(depositions,
                   [concept |-> last.concept, submitted |-> FALSE,
                    state |-> "unsubmitted", title |-> last.title,
                    version |-> last.version, files |-> last.files])

\* ------------------------------------------------------------ driver
\* One request of the log: id is the deposition (or bucket) addressed, name the
\* uploaded basename, status the response's status code, link the bucket link
\* of a creation response (0: none).
Req(method, what, id, name, status, link) ==
    [method |-> method, what |-> what, id |-> id, name |-> name,
     status |-> status, link |-> link]

\* Titles a caller gives in data; FirstTitle is the one of the calls that do
\* not vary it.
Titles == {"T1", "T2"}

FirstTitle == "T1"

NoOp ==
    [name |-> "none", key |-> NoKey, id |-> 0, title |-> "", version |-> Absent,
     paths |-> <<>>, publish |-> FALSE]

NoResult == [status |-> "none", error |-> "", rep |-> NoRep]

\* The configuration namespaces: self.module of a production driver and of a
\* sandbox driver (api.py 105, 116).
Modules == {"zenodo", "zenodo:sandbox"}

InitCaller ==
    /\ sandbox = FALSE
    /\ config = [m \in Modules |-> [k \in Keys |-> 0]]
    /\ pc = "idle"
    /\ op = NoOp
    /\ deposition_data = NoRep
    /\ new_deposition_id = 0
    /\ new_deposition_data = NoRep
    /\ new_version = Absent
    /\ bucket = 0
    /\ i = 1
    /\ rv = <<>>
    /\ log = <<>>
    /\ result = NoResult
    /\ calls = 0
    /\ writes = [k \in Keys |-> 0]

\* No label has been handed to the version generator.
InitGenerator ==
    /\ old_version = Absent
    /\ generated = <<>>

\* Processes that call ensure concurrently, and one that has not called.
Procs == {1, 2}

NoProc ==
    [pc |-> "none", paths |-> <<>>, deposition_id |-> 0, id |-> 0,
     version |-> Absent, i |-> 1, wrote |-> 0]

InitProcs == procs = [p \in Procs |-> NoProc]

NoDownload ==
    [op |-> "none", arg |-> "", record_id |-> "", name |-> "", force |-> FALSE,
     pc |-> "idle", j |-> 1, rv |-> <<>>, fetched |-> 0, log |-> <<>>,
     stored |-> 0, cold |-> FALSE, status |-> "none", error |-> "",
     latest |-> ""]

\* Nothing has been downloaded.
InitCache ==
    /\ cache = <<>>
    /\ dl = NoDownload
    /\ dl_prev = NoDownload
    /\ workers = <<>>
    /\ dl_calls = 0

\* ... and no record is read.
InitDownloader == InitCache /\ blobs = <<>>

\* A fresh client: no deposition exists on the server.
InitDriver == depositions = <<>> /\ InitCaller

\* An optional field that was not given.
None == "None"

\* The fields of Metadata the companion rules read.
NoMetadata ==
    [upload_type |-> None, publication_type |-> None, image_type |-> None,
     access_right |-> None, license |-> None, embargo_date |-> None]

\* No Metadata object has been constructed.
InitValidation ==
    /\ metadata = NoMetadata
    /\ constructed = "none"
    /\ posted = <<>>

Init ==
    /\ InitDriver /\ InitGenerator /\ InitProcs /\ InitDownloader
    /\ InitValidation

\* A call starts: fresh locals, empty request log, no result yet.
Begin(o, at) ==
    /\ pc = "idle"
    /\ calls' = calls + 1
    /\ op' = o
    /\ pc' = at
    /\ deposition_data' = NoRep
    /\ new_deposition_id' = 0
    /\ new_deposition_data' = NoRep
    /\ new_version' = Absent
    /\ bucket' = 0
    /\ i' = 1
    /\ rv' = <<>>
    /\ log' = <<>>
    /\ result' = NoResult
    /\ UNCHANGED <<depositions, config, writes>>

\* An ensure that goes on to its write although create raised.
Raise_written(error) ==
    /\ pc' = IF op.key # NoKey /\ op.name = "create"
             THEN "ensure_write" ELSE "idle"
    /\ result' = [status |-> "error", error |-> error, rep |-> NoRep]

\* A driver that swallows the failure and stays where it is.
Raise_retry(error) == UNCHANGED <<pc, result>>

\* The call ends by raising: nothing more of it runs.
Raise(error) ==
    /\ pc' = "idle"
    /\ result' = [status |-> "error", error |-> error, rep |-> NoRep]

\* An ensure that also writes the id of the response update returned.
Return_written(res) ==
    /\ pc' = IF op.key # NoKey THEN "ensure_write" ELSE "idle"
    /\ result' = [status |-> "ok", error |-> "", rep |-> res]

\* The call returns the response res.
Return(res) ==
    /\ pc' = "idle"
    /\ result' = [status |-> "ok", error |-> "", rep |-> res]

Sent(method, what, id, name, status) ==
    log' = Append(log, Req(method, what, id, name, status, 0))

\* ---- ensure (api.py 128-139)
\* deposition_id = pystow.get_config(self.module, key); mapped -> update,
\* else create; publish keeps its default (True) in both.
SelfModule_production == "zenodo"

\* self.module, set by __init__ from sandbox (api.py 101-116).
SelfModule == IF sandbox THEN "zenodo:sandbox" ELSE "zenodo"

EnsureLookup_unmapped(key) == 0

EnsureLookup(key) == config[SelfModule][key]

Ensure(key, title, version, paths) ==
    /\ IF EnsureLookup(key) # 0
       THEN Begin([name |-> "update", key |-> key, id |-> EnsureLookup(key),
                   title |-> title, version |-> version, paths |-> paths,
                   publish |-> TRUE],
                "update_get")
       ELSE Begin([name |-> "create", key |-> key, id |-> 0,
                   title |-> title, version |-> version, paths |-> paths,
                   publish |-> TRUE],
                "create_post")

\* pystow.write_config(self.module, key, str(res.json()["id"])); return res
EnsureWritten(key) == [config EXCEPT ![SelfModule][key] = result.rep.id]

EnsureWrite ==
    /\ pc = "ensure_write"
    /\ config' = EnsureWritten(op.key)
    /\ writes' = [writes EXCEPT ![op.key] = @ + 1]
    /\ pc' = "idle"
    /\ UNCHANGED <<depositions, op, locals, log, result, calls>>

\* ---- create (api.py 141-187)
Create(title, version, paths, publish) ==
    /\ Begin([name |-> "create", key |-> NoKey, id |-> 0, title |-> title,
              version |-> version, paths |-> paths, publish |-> publish],
             "create_post")

\* create returns res: to the caller, or to ensure, which writes the id first.
CreateReturn(res) ==
    IF op.key # NoKey
    THEN /\ pc' = "ensure_write"
         /\ result' = [status |-> "ok", error |-> "", rep |-> res]
    ELSE Return(res)

AfterCreated_upload(b) == "upload"

\* What create does with a 2xx creation response whose bucket link is b.
AfterCreated(b) == IF b = 0 THEN "raise" ELSE "upload"

\* Statuses the creation POST is answered with.
CreateStatuses == {"200", "400", "404", "500"}

CreateError_generic(status) == IF status # "200" THEN "HTTPError" ELSE ""

\* if res.status_code == 400: raise ValueError(res.text);
\* res.raise_for_status(): the error raised on the status, "" for none.
CreateError(status) ==
    IF status = "400" THEN "ValueError: res.text"
    ELSE IF status # "200" THEN "HTTPError"
    ELSE ""

\* requests.post(self.depositions_base, json=data); 400 -> ValueError(res.text),
\* res.raise_for_status(), then the bucket link is read.
CreatePost ==
    /\ pc = "create_post"
    /\ \E status \in CreateStatuses, hasBucket \in BOOLEAN :
        /\ log' = Append(log, Req("POST", "create", 0, "", status,
                                  IF status = "200" /\ hasBucket
                                  THEN Len(depositions) + 1 ELSE 0))
        /\ IF status # "200"
           THEN /\ IF CreateError(status) # ""
                   THEN Raise(CreateError(status))
                   ELSE UNCHANGED <<pc, result>>
                /\ UNCHANGED <<depositions, deposition_data, bucket>>
           ELSE /\ depositions' = ServerCreate(op.title, op.version)
                /\ LET res_json ==
                        [RepIn(depositions', Len(depositions')) EXCEPT
                            !.bucket = IF hasBucket THEN @ ELSE 0]
                   IN IF AfterCreated(res_json.bucket) = "raise"
                      THEN /\ Raise("ValueError: no bucket")
                           /\ UNCHANGED <<deposition_data, bucket>>
                      ELSE /\ deposition_data' = res_json
                           /\ bucket' = res_json.bucket
                           /\ pc' = "upload"
                           /\ UNCHANGED result
    /\ UNCHANGED <<config, op, new_deposition_id, new_deposition_data,
                   new_version, i, rv, calls, writes>>

\* ---- _upload_files (api.py 348-365)
AfterPut_next(status) == "next"

\* What the loop does after a PUT with the given status.
AfterPut(status) == IF status = "200" THEN "next" ELSE "raise"

\* One pass of the loop: open(path), requests.put(bucket/basename),
\* res.raise_for_status(), rv.append(res).
UploadFile ==
    /\ pc = "upload"
    /\ i <= Len(op.paths)
    /\ \/ /\ Raise("OSError")
          /\ rv' = <<>>
          /\ UNCHANGED <<depositions, i, log>>
       \/ \E status \in {"200", "500"} :
            /\ Sent("PUT", "file", bucket, op.paths[i], status)
            /\ depositions' = IF status = "200"
                              THEN ServerPutFile(bucket, op.paths[i])
                              ELSE depositions
            /\ IF AfterPut(status) = "raise"
               THEN /\ Raise("HTTPError")
                    /\ rv' = <<>>
                    /\ UNCHANGED i
               ELSE /\ i' = i + 1
                    /\ rv' = Append(rv, op.paths[i])
                    /\ UNCHANGED <<pc, result>>
    /\ UNCHANGED <<config, op, deposition_data, new_deposition_id,
                   new_deposition_data, new_version, bucket, calls, writes>>

UploadsDone_early == pc = "upload"

\* _upload_files has returned: its loop went through all of paths.
UploadsDone == pc = "upload" /\ i > Len(op.paths)

CreatePublishes_never == FALSE

CreatePublishes_always == TRUE

\* if not publish: return self._get_deposition(deposition_id)
CreatePublishes == op.publish

\* create, publish=False: return self._get_deposition(deposition_id)
CreateGet ==
    /\ UploadsDone /\ op.name = "create" /\ ~CreatePublishes
    /\ \E status \in {"200", "500"} :
        /\ Sent("GET", "deposition", deposition_data.id, "", status)
        /\ IF status = "200"
           THEN CreateReturn(Rep(deposition_data.id))
           ELSE Raise("HTTPError")
    /\ UNCHANGED <<depositions, config, op, locals, calls, writes>>

\* Which deposition create publishes: deposition_id = res_json["id"].
CreatePublishId == deposition_data.id

\* create, publish=True: return self.publish(deposition_id)
CreatePublish ==
    /\ UploadsDone /\ op.name = "create" /\ CreatePublishes
    /\ \E status \in {"200", "500"} :
        /\ Sent("POST", "publish", CreatePublishId, "", status)
        /\ IF status = "200"
           THEN /\ depositions' = ServerPublish(CreatePublishId)
                /\ CreateReturn(RepIn(depositions', CreatePublishId))
           ELSE /\ Raise("HTTPError")
                /\ UNCHANGED depositions
    /\ UNCHANGED <<config, op, locals, calls, writes>>

\* ---- update (api.py 269-306)
Update(deposition_id, paths, publish) ==
    /\ Begin([name |-> "update", key |-> NoKey, id |-> deposition_id,
              title |-> "", version |-> Absent, paths |-> paths, publish |-> publish],
             "update_get")

UpdateBranch_always_new(data) == "new_version"

\* Which branch update takes on the fetched deposition_data.
UpdateBranch(data) == IF data.submitted THEN "new_version" ELSE "reuse"

\* res = self._get_deposition(deposition_id); the unsubmitted branch goes on
\* with the fetched draft and its bucket.
UpdateGet ==
    /\ pc = "update_get"
    /\ \E status \in {"200", "500"} :
        /\ Sent("GET", "deposition", op.id, "", status)
        /\ IF status # "200"
           THEN /\ Raise("HTTPError")
                /\ UNCHANGED <<deposition_data, new_deposition_id,
                               new_deposition_data, bucket>>
           ELSE /\ deposition_data' = Rep(op.id)
                /\ IF UpdateBranch(Rep(op.id)) = "new_version"
                   THEN /\ pc' = "usdm_get"
                        /\ UNCHANGED <<new_deposition_id, new_deposition_data,
                                       bucket, result>>
                   ELSE /\ new_deposition_id' = Rep(op.id).id
                        /\ new_deposition_data' = Rep(op.id)
                        /\ bucket' = Rep(op.id).bucket
                        /\ pc' = "upload"
                        /\ UNCHANGED result
    /\ UNCHANGED <<depositions, config, op, new_version, i, rv, calls, writes>>

\* ---- _update_submitted_deposition_metadata (api.py 308-346)
\* The label the new version is computed from: that of deposition_id.
OldVersion == Rep(op.id).version

\* res = self._get_deposition(deposition_id);
\* old_version = res.json()["metadata"]["version"]; _prepare_new_version
UsdmGet ==
    /\ pc = "usdm_get"
    /\ \E status \in {"200", "500"} :
        /\ Sent("GET", "deposition", op.id, "", status)
        /\ IF status # "200"
           THEN Raise("HTTPError") /\ UNCHANGED new_version
           ELSE IF OldVersion = Absent
           THEN Raise("KeyError: version") /\ UNCHANGED new_version
           ELSE /\ new_version' = _prepare_new_version(OldVersion)
                /\ pc' = "usdm_newversion"
                /\ UNCHANGED result
    /\ UNCHANGED <<depositions, config, op, deposition_data, new_deposition_id,
                   new_deposition_data, bucket, i, rv, calls, writes>>

\* res = self.new_version(deposition_id, sleep=False);
\* new_deposition_id = res.json()["links"]["latest_draft"].split("/")[-1]
UsdmNewVersion ==
    /\ pc = "usdm_newversion"
    /\ \E status \in {"200", "500"} :
        /\ Sent("POST", "newversion", op.id, "", status)
        /\ IF status # "200"
           THEN /\ Raise("HTTPError")
                /\ UNCHANGED <<depositions, new_deposition_id>>
           ELSE /\ depositions' = ServerNewVersion(op.id)
                /\ new_deposition_id' = LatestDraft(op.id)
                /\ pc' = "usdm_getnew"
                /\ UNCHANGED result
    /\ UNCHANGED <<config, op, deposition_data, new_deposition_data,
                   new_version, bucket, i, rv, calls, writes>>

NewDraftVersion_kept(fetched) == fetched.version

\* new_deposition_data["metadata"]["version"] = new_version
NewDraftVersion(fetched) == new_version

\* GET of the new draft; its version is set to new_version (and its
\* publication_date to today) in the fetched dictionary.
UsdmGetNew ==
    /\ pc = "usdm_getnew"
    /\ \E status \in {"200", "500"} :
        /\ Sent("GET", "deposition", new_deposition_id, "", status)
        /\ IF status # "200"
           THEN Raise("HTTPError") /\ UNCHANGED new_deposition_data
           ELSE /\ new_deposition_data' =
                      [Rep(new_deposition_id) EXCEPT
                          !.version = NewDraftVersion(Rep(new_deposition_id))]
                /\ pc' = "usdm_put"
                /\ UNCHANGED result
    /\ UNCHANGED <<depositions, config, op, deposition_data, new_deposition_id,
                   new_version, bucket, i, rv, calls, writes>>

MetadataPutId_original == op.id

\* Which deposition receives the metadata PUT.
MetadataPutId == new_deposition_id

MetadataPutBody_data ==
    [title |-> op.title, version |-> new_deposition_data.version]

\* json={"metadata": new_deposition_data["metadata"]}: the metadata fetched
\* from the new draft, with the version (and publication date) set.
MetadataPutBody ==
    [title |-> new_deposition_data.title,
     version |-> new_deposition_data.version]

\* requests.put(.../<new_deposition_id>, json={"metadata": ...}); on return
\* update reads bucket = new_deposition_data["links"]["bucket"].
UsdmPut ==
    /\ pc = "usdm_put"
    /\ \E status \in {"200", "500"} :
        /\ Sent("PUT", "metadata", MetadataPutId, "", status)
        /\ IF status # "200"
           THEN /\ Raise("HTTPError")
                /\ UNCHANGED <<depositions, bucket>>
           ELSE /\ depositions' =
                      ServerPutMetadata(MetadataPutId, MetadataPutBody)
                /\ bucket' = new_deposition_data.bucket
                /\ pc' = "upload"
                /\ UNCHANGED result
    /\ UNCHANGED <<config, op, deposition_data, new_deposition_id,
                   new_deposition_data, new_version, i, rv, calls, writes>>

\* Which deposition update fetches after the uploads (api.py 299).
UpdateRefetchId == op.id

\* res = self._get_deposition(deposition_id); if not publish: return res
UpdateRefetch ==
    /\ UploadsDone /\ op.name = "update"
    /\ \E status \in {"200", "500"} :
        /\ Sent("GET", "deposition", UpdateRefetchId, "", status)
        /\ IF status # "200"
           THEN Raise("HTTPError")
           ELSE IF ~op.publish
           THEN Return(Rep(UpdateRefetchId))
           ELSE /\ pc' = "update_publish"
                /\ UNCHANGED result
    /\ UNCHANGED <<depositions, config, op, locals, calls, writes>>

UpdatePublishId_original == op.id

\* Which deposition update publishes (api.py 306).
UpdatePublishId == new_deposition_id

\* return self.publish(new_deposition_id)
UpdatePublish ==
    /\ pc = "update_publish"
    /\ \E status \in {"200", "500"} :
        /\ Sent("POST", "publish", UpdatePublishId, "", status)
        /\ IF status = "200"
           THEN /\ depositions' = ServerPublish(UpdatePublishId)
                /\ Return(RepIn(depositions', UpdatePublishId))
           ELSE /\ Raise("HTTPError")
                /\ UNCHANGED depositions
    /\ UNCHANGED <<config, op, locals, calls, writes>>

\* ------------------------------------------------------ specification
Steps ==
    \/ CreatePost
    \/ UploadFile
    \/ CreatePublish
    \/ UpdateGet
    \/ UsdmGet
    \/ UsdmNewVersion
    \/ UsdmGetNew
    \/ UsdmPut
    \/ UpdateRefetch
    \/ UpdatePublish

Calls ==
    /\ calls < MaxCalls
    /\ \/ \E key \in Keys, version \in InputVersions, paths \in PathSeqs :
             Ensure(key, FirstTitle, version, paths)
       \/ \E version \in InputVersions, paths \in PathSeqs, publish \in BOOLEAN :
             Create(FirstTitle, version, paths, publish)
       \/ \E id \in 1..Len(depositions), paths \in PathSeqs, publish \in BOOLEAN :
             Update(id, paths, publish)

Next ==
    /\ \/ Calls
       \/ EnsureWrite
       \/ CreateGet
       \/ Steps
    /\ UNCHANGED <<generator, procs, downloader, validation, sandbox, blobs>>

Spec == Init /\ [][Next]_vars

\* The test's scenario (test_lifecycle.py 75-106): one published record whose
\* label is today's date, then update, publish=True, with the id of that
\* first version, again and again.
FirstVersions ==
    {d \in 1..Len(depositions) :
        /\ depositions[d].concept = d
        /\ depositions[d].submitted
        /\ depositions[d].version = Today}

RepeatCalls ==
    /\ calls < MaxRepeatCalls
    /\ \/ /\ depositions = <<>>
          /\ \E paths \in PathSeqs : Create(FirstTitle, Today, paths, TRUE)
       \/ \E id \in FirstVersions, paths \in PathSeqs : Update(id, paths, TRUE)

NextRepeat ==
    /\ \/ RepeatCalls
       \/ Steps
    /\ UNCHANGED <<generator, procs, downloader, validation, sandbox, blobs>>

SpecRepeat == Init /\ [][NextRepeat]_vars

\* ------------------------------------------- the version generator alone
\* Characters a previous label can carry after its date.
SuffixChars == {"-", "1", "9", "x"}

Suffixes == UNION {[1..n -> SuffixChars] : n \in 0..MaxSuffix}

\* A date other than today's.
OtherDay == <<"2", "0", "2", "3", "-", "1", "2", "-", "3", "1">>

\* Previous labels: a date or a label of another scheme, and a tail.
PreviousLabels ==
    {d \o t : d \in {Today, OtherDay, OtherLabel}, t \in Suffixes}

InitVersion ==
    /\ InitDriver /\ InitProcs /\ InitDownloader /\ InitValidation
    /\ old_version \in PreviousLabels
    /\ generated = <<>>

\* The label the next revision is computed from.
LastLabel ==
    IF generated = <<>> THEN old_version ELSE generated[Len(generated)]

\* new_version = _prepare_new_version(old_version), revision after revision.
Generate ==
    /\ Len(generated) < MaxRevisions
    /\ generated' = Append(generated, _prepare_new_version(LastLabel))
    /\ UNCHANGED old_version

NextVersion ==
    Generate /\ UNCHANGED <<driver, procs, downloader, validation, sandbox, blobs>>

SpecVersion == InitVersion /\ [][NextVersion]_vars

\* ------------------------------------------------- concurrent ensure
\* Processes share the configuration file and the server and call
\* ensure(key="k1", data, paths) once each; nothing in ensure (api.py
\* 128-139) takes a lock, so their requests interleave freely.
InitConcurrent ==
    /\ InitDriver /\ InitGenerator /\ InitDownloader /\ InitValidation
    /\ procs \in [Procs -> {[NoProc EXCEPT !.pc = "lookup", !.paths = paths] :
                                paths \in PathSeqs}]

\* The part of the driver's state a process does not use.
sequential == <<pc, op, locals, log, result, calls>>

ConfigWritten_if_absent(cfg, key, id) ==
    IF cfg[SelfModule][key] = 0 THEN [cfg EXCEPT ![SelfModule][key] = id] ELSE cfg

\* pystow.write_config(self.module, key, str(res.json()["id"]))
ConfigWritten(cfg, key, id) == [cfg EXCEPT ![SelfModule][key] = id]

ProcRaise(p) == procs' = [procs EXCEPT ![p].pc = "raised"]

\* deposition_id = pystow.get_config(self.module, key)
ProcLookup(p) ==
    /\ procs[p].pc = "lookup"
    /\ procs' = [procs EXCEPT
                    ![p].deposition_id = EnsureLookup("k1"),
                    ![p].pc = IF EnsureLookup("k1") # 0
                              THEN "newversion" ELSE "create_post"]
    /\ UNCHANGED <<depositions, config, writes>>

\* create: the creation POST
ProcCreatePost(p) ==
    /\ procs[p].pc = "create_post"
    /\ \/ ProcRaise(p) /\ UNCHANGED depositions
       \/ /\ depositions' = ServerCreate(FirstTitle, Today)
          /\ procs' = [procs EXCEPT ![p].id = Len(depositions'),
                                    ![p].pc = "upload"]
    /\ UNCHANGED <<config, writes>>

\* update of the mapped id: the label is read and the new version requested
ProcNewVersion(p) ==
    /\ procs[p].pc = "newversion"
    /\ \/ ProcRaise(p) /\ UNCHANGED depositions
       \/ /\ depositions' = ServerNewVersion(procs[p].deposition_id)
          /\ procs' = [procs EXCEPT
                          ![p].id = LatestDraft(procs[p].deposition_id),
                          ![p].version = _prepare_new_version(
                              depositions[procs[p].deposition_id].version),
                          ![p].pc = "put_metadata"]
    /\ UNCHANGED <<config, writes>>

\* update: the metadata PUT to the new draft
ProcPutMetadata(p) ==
    /\ procs[p].pc = "put_metadata"
    /\ \/ ProcRaise(p) /\ UNCHANGED depositions
       \/ /\ depositions' = ServerPutMetadata(procs[p].id,
                                            [title |-> depositions[procs[p].id].title,
                                             version |-> procs[p].version])
          /\ procs' = [procs EXCEPT ![p].pc = "upload"]
    /\ UNCHANGED <<config, writes>>

\* _upload_files: one PUT
ProcUpload(p) ==
    /\ procs[p].pc = "upload"
    /\ procs[p].i <= Len(procs[p].paths)
    /\ \/ ProcRaise(p) /\ UNCHANGED depositions
       \/ /\ depositions' = ServerPutFile(procs[p].id, procs[p].paths[procs[p].i])
          /\ procs' = [procs EXCEPT ![p].i = @ + 1]
    /\ UNCHANGED <<config, writes>>

\* publish; create hands its response back to ensure, which writes the id
ProcPublish(p) ==
    /\ procs[p].pc = "upload"
    /\ procs[p].i > Len(procs[p].paths)
    /\ \/ ProcRaise(p) /\ UNCHANGED depositions
       \/ /\ depositions' = ServerPublish(procs[p].id)
          /\ procs' = [procs EXCEPT
                          ![p].pc = IF procs[p].deposition_id = 0
                                    THEN "write" ELSE "done"]
    /\ UNCHANGED <<config, writes>>

\* pystow.write_config(...); return res
ProcWrite(p) ==
    /\ procs[p].pc = "write"
    /\ config' = ConfigWritten(config, "k1", procs[p].id)
    /\ writes' = [writes EXCEPT !["k1"] = @ + 1]
    /\ procs' = [procs EXCEPT ![p].pc = "done", ![p].wrote = writes'["k1"]]
    /\ UNCHANGED depositions

NextConcurrent ==
    /\ \E p \in Procs :
          \/ ProcLookup(p)
          \/ ProcCreatePost(p)
          \/ ProcNewVersion(p)
          \/ ProcPutMetadata(p)
          \/ ProcUpload(p)
          \/ ProcPublish(p)
          \/ ProcWrite(p)
    /\ UNCHANGED <<sequential, generator, downloader, validation, sandbox, blobs>>

SpecConcurrent == InitConcurrent /\ [][NextConcurrent]_vars

\* ------------------------------------------- records and downloads
\* What one update (or create) uploads in the lineages downloads read from.
UploadedOnce == {<<f>> : f \in FileNames}

\* The server after create(first, ups[1]) and n - 1 published updates, the
\* k-th with update(base[k], ups[k]): the new version copies the files of the
\* latest one and takes the label generated from that of base[k].
RECURSIVE Lineage(_, _, _, _)
Lineage(n, first, ups, base) ==
    IF n = 1
    THEN <<[concept |-> 1, submitted |-> TRUE, state |-> "done",
            title |-> FirstTitle, version |-> first, files |-> ups[1]]>>
    ELSE LET before == Lineage(n - 1, first, ups, base)
         IN Append(before,
                   [concept |-> 1, submitted |-> TRUE, state |-> "done",
                    title |-> FirstTitle,
                    version |-> _prepare_new_version(before[base[n]].version),
                    files |-> before[n - 1].files \o ups[n]])

\* Labels of the first version: today's date (the default), or none.
FirstLabels == {Today, Absent}

PublishedLineages ==
    {Lineage(c[1], c[2], c[3], c[4]) :
        c \in {d \in (1..MaxRecords) \X FirstLabels
                       \X [1..MaxRecords -> UploadedOnce]
                       \X [1..MaxRecords -> 1..MaxRecords] :
                  /\ d[2] = Absent => d[1] = 1
                  /\ \A k \in 1..MaxRecords :
                        d[4][k] = (IF k \in 2..d[1] THEN d[4][k] ELSE 1)
                  /\ \A k \in 2..d[1] : d[4][k] < k
                  /\ \A k \in (d[1] + 1)..MaxRecords : d[3][k] = <<"A">>}}

\* A new version copies the files of the one before it: the j-th entry of
\* every record of the lineage that has one is the j-th upload.
CopiedBlobs(deps) ==
    [r \in 1..Len(deps) |->
        [j \in 1..Len(deps[r].files) |-> IntToStr(j)]]

InitDownload ==
    /\ depositions \in PublishedLineages
    /\ blobs = CopiedBlobs(depositions)
    /\ InitCaller /\ InitGenerator /\ InitProcs /\ InitCache
    /\ InitValidation

\* str(record_id) in a URL, for ids below 10, and the record such a segment
\* names on the server (0: none).
IdSegment(id) == DigitChars[id + 1]

SegmentId(segment) == IF IsNumeric(segment) THEN CharToInt(segment) ELSE 0

\* Status codes of GET <api>/records/<record_id>.
RecordStatuses(record_id) ==
    IF SegmentId(record_id) \in 1..Len(depositions)
    THEN {"200", "500"} ELSE {"404"}

\* Record ids a caller passes.
RecordIds == {IdSegment(r) : r \in 1..Len(depositions)}

\* res_json["links"]["latest"].split("/") of record r: the link names the
\* latest published version of r's lineage.
LatestLink(r) ==
    <<"https:", "", "zenodo.org", "api", "records",
      IdSegment(LatestPublished(depositions[r].concept)), "versions", "latest">>

LatestSegment_last(segments) == segments[Len(segments)]

\* links.latest.split("/")[-3]
LatestSegment(segments) == segments[Len(segments) - 2]

\* parts = [self.module.replace(":", "-"), concept_record_id, version] and the
\* name; version = res_json["metadata"].get("version", "v1")
LocalPath(r, name) ==
    [module  |-> IF SelfModule = "zenodo:sandbox"
                 THEN "zenodo-sandbox" ELSE SelfModule,
     concept |-> depositions[r].concept,
     version |-> IF depositions[r].version = Absent
                 THEN <<"v", "1">> ELSE depositions[r].version,
     name    |-> name]

\* The download link of the j-th file entry of record r.
Url(r, j) == <<r, j>>

MustFetch_always(path, force) == TRUE

\* pystow.ensure(..., force=force): fetch unless present and not forced.
MustFetch(path, force) == force \/ path \notin DOMAIN cache

\* The local file at path holds what was fetched from url.
Stored(files, path, url) ==
    [q \in (DOMAIN files) \cup {path} |-> IF q = path THEN url ELSE files[q]]

Matches_any(n, name) == TRUE

\* the filter of the list comprehension: if n == name
Matches(n, name) == n = name

\* The next file entry at or after j that passes the filter, 0: none.
NextMatch(files, name, j) ==
    IF \E k \in j..Len(files) : Matches(files[k], name)
    THEN CHOOSE k \in j..Len(files) :
            /\ Matches(files[k], name)
            /\ \A m \in j..(k - 1) : ~Matches(files[m], name)
    ELSE 0

Fetched(what, id, index, status) ==
    [what |-> what, id |-> id, index |-> index, status |-> status]

DlBegin(o, record_id, name, force, at) ==
    /\ dl.pc = "idle"
    /\ dl_calls' = dl_calls + 1
    /\ dl_prev' = [dl EXCEPT !.log = <<>>, !.j = 1, !.stored = 0, !.error = ""]
    /\ dl' = [NoDownload EXCEPT !.op = o, !.arg = record_id,
                                !.record_id = record_id, !.name = name,
                                !.force = force, !.pc = at]
    /\ workers' = <<>>
    /\ UNCHANGED cache

DlRaised(logged, error) ==
    [dl EXCEPT !.log = logged, !.pc = "idle", !.status = "error",
               !.error = error, !.rv = <<>>]

\* ---- entry points (api.py 387, 401, 442, 506)
GetLatestRecord(record_id) ==
    DlBegin("get_latest_record", record_id, "", FALSE, "get_latest")

Download(record_id, name, force) ==
    DlBegin("download", record_id, name, force, "get_record")

DownloadAll(record_id, force) ==
    DlBegin("download_all", record_id, "", force, "get_record")

DownloadLatest(record_id, name, force) ==
    DlBegin("download_latest", record_id, name, force, "get_latest")

\* ---- get_latest_record (api.py 387-399); download_latest goes on with
\* download(latest_record_id, name)
DlGetLatest ==
    /\ dl.pc = "get_latest"
    /\ \E status \in RecordStatuses(dl.record_id) :
        LET logged == Append(dl.log, Fetched("record", dl.record_id, 0, status))
            latest == LatestSegment(LatestLink(SegmentId(dl.record_id)))
        IN dl' = IF status # "200"
                 THEN DlRaised(logged, "HTTPError")
                 ELSE IF dl.op = "get_latest_record"
                 THEN [dl EXCEPT !.log = logged, !.latest = latest,
                                 !.pc = "idle", !.status = "ok"]
                 ELSE [dl EXCEPT !.log = logged, !.latest = latest,
                                 !.record_id = latest, !.pc = "get_record"]
    /\ UNCHANGED <<cache, dl_prev, workers, dl_calls>>

\* ---- _download_helper (api.py 458-504)
\* res_json = self.get_record(record_id).json(); parts; name_url_pairs;
\* download_all hands the pairs to thread_map.
DlGetRecord ==
    /\ dl.pc = "get_record"
    /\ \E status \in RecordStatuses(dl.record_id) :
        LET logged == Append(dl.log, Fetched("record", dl.record_id, 0, status))
            r == SegmentId(dl.record_id)
        IN IF status # "200"
           THEN /\ dl' = DlRaised(logged, "HTTPError")
                /\ UNCHANGED workers
           ELSE IF dl.op = "download_all"
           THEN /\ dl' = [dl EXCEPT !.log = logged, !.pc = "threads"]
                /\ workers' =
                      [j \in 1..Len(depositions[r].files) |->
                          [pc |-> "start",
                           path |-> LocalPath(r, depositions[r].files[j]),
                           url |-> Url(r, j)]]
           ELSE /\ dl' = [dl EXCEPT
                            !.log = logged, !.pc = "ensure",
                            !.cold = LocalPath(r, dl.name) \notin DOMAIN cache]
                /\ UNCHANGED workers
    /\ UNCHANGED <<cache, dl_prev, dl_calls>>

\* One pass of the list comprehension that takes a matching entry:
\* pystow.ensure(*parts, name=n, url=url, force=force)
DlEnsure ==
    /\ dl.pc = "ensure"
    /\ LET r == SegmentId(dl.record_id)
           k == NextMatch(depositions[r].files, dl.name, dl.j)
           path == LocalPath(r, depositions[r].files[k])
       IN /\ k # 0
          /\ IF MustFetch(path, dl.force)
             THEN \E status \in {"200", "500"} :
                    LET logged == Append(dl.log,
                                         Fetched("file", dl.record_id, k, status))
                    IN IF status = "200"
                       THEN /\ cache' = Stored(cache, path, Url(r, k))
                            /\ dl' = [dl EXCEPT !.log = logged, !.j = k + 1,
                                                !.rv = Append(@, path),
                                                !.fetched = @ + 1,
                                                !.stored = @ + 1]
                       ELSE /\ dl' = [DlRaised(logged, "HTTPError") EXCEPT
                                         !.fetched = @ + 1]
                            /\ UNCHANGED cache
             ELSE /\ dl' = [dl EXCEPT !.j = k + 1, !.rv = Append(@, path)]
                  /\ UNCHANGED cache
    /\ UNCHANGED <<dl_prev, workers, dl_calls>>

\* if not rv: raise FileNotFoundError(...); return rv[0]
DlFinish ==
    /\ dl.pc = "ensure"
    /\ NextMatch(depositions[SegmentId(dl.record_id)].files, dl.name, dl.j) = 0
    /\ dl' = IF dl.rv = <<>>
             THEN DlRaised(dl.log, "FileNotFoundError")
             ELSE [dl EXCEPT !.pc = "idle", !.status = "ok", !.rv = <<dl.rv[1]>>]
    /\ UNCHANGED <<cache, dl_prev, workers, dl_calls>>

\* ---- thread_map(_func, name_url_pairs): every pair has its own thread
\* pystow.ensure looks whether the path exists
WorkerCheck(w) ==
    /\ dl.pc = "threads"
    /\ workers[w].pc = "start"
    /\ workers' = [workers EXCEPT
                      ![w].pc = IF MustFetch(workers[w].path, dl.force)
                                THEN "fetching" ELSE "done"]
    /\ UNCHANGED <<cache, dl, dl_prev, dl_calls>>

\* ... and fetches the url into the path
WorkerFetch(w) ==
    /\ dl.pc = "threads"
    /\ workers[w].pc = "fetching"
    /\ \E status \in {"200", "500"} :
        /\ dl' = [dl EXCEPT !.fetched = @ + 1,
                            !.stored = IF status = "200" THEN @ + 1 ELSE @]
        /\ cache' = IF status = "200"
                    THEN Stored(cache, workers[w].path, workers[w].url)
                    ELSE cache
        /\ workers' = [workers EXCEPT
                          ![w].pc = IF status = "200" THEN "done" ELSE "failed"]
    /\ UNCHANGED <<dl_prev, dl_calls>>

\* thread_map returns the list of the results, or the exception of a thread
DlJoin ==
    /\ dl.pc = "threads"
    /\ \A w \in 1..Len(workers) : workers[w].pc \in {"done", "failed"}
    /\ dl' = IF \E w \in 1..Len(workers) : workers[w].pc = "failed"
             THEN DlRaised(dl.log, "HTTPError")
             ELSE [dl EXCEPT !.pc = "idle", !.status = "ok",
                             !.rv = [w \in 1..Len(workers) |-> workers[w].path]]
    /\ UNCHANGED <<cache, dl_prev, workers, dl_calls>>

\* A client that downloads from records by their id.
DownloadCalls ==
    /\ dl_calls < MaxDownloads
    /\ \E record_id \in RecordIds, force \in BOOLEAN :
          \/ \E name \in FileNames : Download(record_id, name, force)
          \/ DownloadAll(record_id, force)

NextDownload ==
    /\ \/ DownloadCalls
       \/ DlGetRecord
       \/ DlEnsure
       \/ DlFinish
       \/ \E w \in 1..Len(workers) : WorkerCheck(w) \/ WorkerFetch(w)
       \/ DlJoin
    /\ UNCHANGED <<driver, generator, procs, validation, sandbox, blobs>>

SpecDownload == InitDownload /\ [][NextDownload]_vars

\* A client that resolves the latest version of a record first.
LatestCalls ==
    /\ dl_calls < MaxDownloads
    /\ \E record_id \in RecordIds :
          \/ GetLatestRecord(record_id)
          \/ \E name \in FileNames, force \in BOOLEAN :
                DownloadLatest(record_id, name, force)

NextLatest ==
    /\ \/ LatestCalls
       \/ DlGetLatest
       \/ DlGetRecord
       \/ DlEnsure
       \/ DlFinish
    /\ UNCHANGED <<workers, driver, generator, procs, validation, sandbox, blobs>>

SpecLatest == InitDownload /\ [][NextLatest]_vars

\* ------------------------------------- versions edited on the server
\* Contents a file of a record can have.
Contents == {<<"1">>, <<"2">>}

\* Labels a record can carry: the date, none, or a label of the owner's.
RecordLabels == {Today, Absent, OtherLabel}

\* Lineages whose versions were published through Zenodo's own pages or any
\* other client: every version has one file "A", with a content and a label
\* of its own choice.
EditedLineages ==
    {[r \in 1..MaxRecords |->
        [concept |-> 1, submitted |-> TRUE, state |-> "done",
         title |-> FirstTitle, version |-> labels[r], files |-> <<"A">>]] :
        labels \in [1..MaxRecords -> RecordLabels]}

InitEdited ==
    /\ depositions \in EditedLineages
    /\ blobs \in [1..MaxRecords -> {<<c>> : c \in Contents}]
    /\ InitCaller /\ InitGenerator /\ InitProcs /\ InitCache
    /\ InitValidation

\* A client that downloads the file of one record after the other.
EditedCalls ==
    /\ dl_calls < MaxDownloads
    /\ \E record_id \in RecordIds : Download(record_id, "A", FALSE)

NextEdited ==
    /\ \/ EditedCalls
       \/ DlGetRecord
       \/ DlEnsure
       \/ DlFinish
    /\ UNCHANGED <<workers, driver, generator, procs, validation, sandbox, blobs>>

SpecEdited == InitEdited /\ [][NextEdited]_vars

\* ------------------------------------------------ Metadata (struct.py)
\* Values of the Literal types, and one value outside each.
UploadType == {"publication", "image", "dataset"}

PublicationType == {"patent", "article"}

ImageType == {"figure"}

AccessRight == {"open", "embargoed", "closed"}

\* Keyword arguments a caller passes: a field left out has its default
\* (access_right "open", license "CC0-1.0", the other three None); license
\* None is license=None written out.
MetadataInputs ==
    [upload_type      : UploadType \cup {"bogus"},
     publication_type : {None, "patent"},
     image_type       : {None, "figure"},
     access_right     : AccessRight,
     license          : {None, "CC0-1.0"},
     embargo_date     : {None, "2024-01-06"}]

\* pydantic's validation of the annotated fields (struct.py 128-141).
FieldsValid(m) ==
    /\ m.upload_type \in UploadType
    /\ m.publication_type \in PublicationType \cup {None}
    /\ m.image_type \in ImageType \cup {None}
    /\ m.access_right \in AccessRight

\* The body of Metadata.__post_init__: the error it raises, or "ok".
__post_init__(m) ==
    IF m.upload_type = "publication" /\ m.publication_type = None
    THEN "ValueError: missing publication_type"
    ELSE IF m.publication_type # None /\ m.upload_type # "publication"
    THEN "ValueError: can't use publication_type"
    ELSE IF m.upload_type = "image" /\ m.image_type = None
    THEN "ValueError: missing image_type"
    ELSE IF m.access_right \in {"open", "embargoed"} /\ m.license = None
    THEN "ValueError: need a license"
    ELSE IF m.access_right = "embargoed" /\ m.embargo_date = None
    THEN "ValueError: missing embargo date"
    ELSE "ok"

\* Metadata is a pydantic BaseModel, not a dataclass: BaseModel.__init__
\* validates the fields and calls no method named __post_init__.
PostInitCalled == FALSE

\* Metadata(**kwargs)
Constructed(m) ==
    IF ~FieldsValid(m) THEN "ValidationError"
    ELSE IF PostInitCalled /\ __post_init__(m) # "ok" THEN __post_init__(m)
    ELSE "ok"

InitMetadata ==
    /\ InitDriver /\ InitGenerator /\ InitProcs /\ InitDownloader
    /\ metadata \in MetadataInputs
    /\ constructed = "none"
    /\ posted = <<>>

Construct ==
    /\ constructed = "none"
    /\ constructed' = Constructed(metadata)
    /\ UNCHANGED <<metadata, posted>>

\* data.model_dump(exclude_none=True), then the items whose value is truthy:
\* a field that is None is left out of the dictionary.
model_dump(m) == [key \in {k \in DOMAIN m : m[k] # None} |-> m[key]]

\* create(data) up to its creation POST (api.py 155-169): a Metadata object is
\* dumped into {"metadata": ...}; nothing else is done to data before
\* requests.post(self.depositions_base, json=data).
CreateBody(data, typed) == IF typed THEN model_dump(data) ELSE data

\* create(Metadata(**metadata), paths): the object exists, so its construction
\* has succeeded.
CreateTyped ==
    /\ constructed = "ok" /\ posted = <<>>
    /\ posted' = <<[type |-> "Metadata", json |-> CreateBody(metadata, TRUE)]>>
    /\ UNCHANGED <<metadata, constructed>>

\* create({"metadata": metadata}, paths): a mapping, no Metadata is built.
CreateMapping ==
    /\ constructed = "none" /\ posted = <<>>
    /\ posted' = <<[type |-> "mapping", json |-> CreateBody(metadata, FALSE)]>>
    /\ UNCHANGED <<metadata, constructed>>

NextMetadata ==
    /\ \/ Construct
       \/ CreateTyped
       \/ CreateMapping
    /\ UNCHANGED <<driver, generator, procs, downloader, sandbox, blobs>>

SpecMetadata == InitMetadata /\ [][NextMetadata]_vars

\* ------------------------------------------- ensure with new data
\* ensure(key, data, paths) again and again, each call with a title and a
\* label of its own in data.
DataCalls ==
    /\ calls < MaxCalls
    /\ \E key \in Keys, title \in Titles, version \in {Today, OtherLabel},
          paths \in UploadedOnce :
          Ensure(key, title, version, paths)

NextData ==
    /\ \/ DataCalls
       \/ EnsureWrite
       \/ Steps
    /\ UNCHANGED <<generator, procs, downloader, validation, sandbox, blobs>>

SpecData == Init /\ [][NextData]_vars

\* ------------------------------------------------- sandbox mode
\* Zenodo(sandbox=s): from now on the caller uses a driver of that mode. The
\* two hosts' depositions are kept in one sequence, their ids distinct.
ZenodoInit(s) ==
    /\ pc = "idle"
    /\ s # sandbox
    /\ sandbox' = s
    /\ UNCHANGED driver

SandboxCalls ==
    /\ calls < MaxCalls
    /\ \E key \in Keys, paths \in PathSeqs : Ensure(key, FirstTitle, Today, paths)

NextSandbox ==
    /\ \/ (\E s \in BOOLEAN : ZenodoInit(s))
       \/ (SandboxCalls \/ EnsureWrite \/ Steps) /\ UNCHANGED sandbox
    /\ UNCHANGED <<generator, procs, downloader, validation, blobs>>

SpecSandbox == Init /\ [][NextSandbox]_vars

\* ------------------------------------------- the methods of Zenodo
\* The attributes class Zenodo defines (api.py 90-516); it has no base class.
ZenodoMethods ==
    {"__init__", "ensure", "create", "edit", "publish", "discard",
     "new_version", "_action", "_get_deposition", "update",
     "_update_submitted_deposition_metadata", "_upload_files", "get_record",
     "get_latest_record", "download", "download_all", "_download_helper",
     "download_latest"}

\* zenodo.update_metadata(deposition_id=..., data=..., publish=...), as the
\* tests call it (test_lifecycle.py 277, 292, 301): the attribute is looked
\* up first.
UpdateMetadata(deposition_id, version, publish) ==
    /\ Begin([name |-> "update_metadata", key |-> NoKey, id |-> deposition_id,
              title |-> FirstTitle, version |-> version, paths |-> <<>>, publish |-> publish],
             "getattr")

\* The lookup of a name class Zenodo does not define raises AttributeError
\* before anything is called.
GetAttr ==
    /\ pc = "getattr"
    /\ op.name \notin ZenodoMethods
    /\ Raise("AttributeError")
    /\ UNCHANGED <<depositions, config, op, locals, log, calls, writes>>

MethodCalls ==
    /\ calls < MaxCalls
    /\ \/ \E version \in InputVersions, paths \in PathSeqs, publish \in BOOLEAN :
             Create(FirstTitle, version, paths, publish)
       \/ \E id \in 1..Len(depositions), version \in InputVersions,
             publish \in BOOLEAN :
             UpdateMetadata(id, version, publish)

NextMethods ==
    /\ \/ MethodCalls
       \/ GetAttr
       \/ CreatePost
       \/ UploadFile
       \/ CreateGet
       \/ CreatePublish
    /\ UNCHANGED <<generator, procs, downloader, validation, sandbox, blobs>>

SpecMethods == Init /\ [][NextMethods]_vars

\* ------------------------------------------------------------ claims
Requests(what) == SelectSeq(log, LAMBDA r : r.what = what)

Elems(seq) == {seq[j] : j \in 1..Len(seq)}

Running == pc \notin {"idle", "ensure_write"}

Returned == pc = "idle" /\ result.status = "ok"

Puts == Requests("file")

UpdateReturned == Returned /\ op.name = "update"

C3_KthUpdateLabel ==
    (UpdateReturned /\ op.publish /\ op.id \in FirstVersions) =>
        result.rep.version =
            Today \o <<"-">> \o
            IntToStr(Cardinality({d \in 1..Len(depositions) :
                                     /\ depositions[d].concept = op.id
                                     /\ depositions[d].submitted}) - 1)

\* C4: create with file A, published, then update (publish=True) with another
\* file B on that deposition: the returned file list holds the files of the
\* published deposition and the files just uploaded.
C4_UpdateKeepsAndAddsFiles ==
    (UpdateReturned /\ op.publish /\ deposition_data.submitted) =>
        /\ Elems(deposition_data.files) \subseteq Elems(result.rep.files)
        /\ Elems(op.paths) \subseteq Elems(result.rep.files)
        /\ Elems(depositions[op.id].files) = Elems(deposition_data.files)

\* A was created and published, the update with B has returned both.
C4_Witness ==
    /\ UpdateReturned /\ op.publish
    /\ deposition_data.files = <<"A">> /\ deposition_data.submitted
    /\ op.paths = <<"B">>
    /\ result.rep.files = <<"A", "B">>

\* C5: update on a deposition that is not submitted: no new-version transition
\* and no metadata PUT; the files go to the existing draft's bucket; id and
\* version label stay; publish, when requested, targets the same id.
C5_UpdateUnsubmittedReusesDraft ==
    (op.name = "update" /\ deposition_data # NoRep /\ ~deposition_data.submitted) =>
        /\ Requests("newversion") = <<>>
        /\ Requests("metadata") = <<>>
        /\ \A j \in 1..Len(Puts) : Puts[j].id = deposition_data.bucket
        /\ \A j \in 1..Len(log) : log[j].what = "publish" => log[j].id = op.id
        /\ deposition_data.id = op.id
        /\ depositions[op.id].version = deposition_data.version
        /\ depositions[op.id].concept = deposition_data.concept
        /\ depositions[op.id].files =
              deposition_data.files \o
              [j \in 1..Len(SelectSeq(Puts, LAMBDA r : r.status = "200")) |->
                  SelectSeq(Puts, LAMBDA r : r.status = "200")[j].name]
        /\ Returned => result.rep.id = op.id
        /\ (Returned /\ op.publish) => Requests("publish") # <<>>

\* An unsubmitted draft was updated with a file and published under its id.
C5_Witness ==
    /\ UpdateReturned /\ op.publish /\ ~deposition_data.submitted
    /\ deposition_data # NoRep
    /\ op.paths # <<>>
    /\ result.rep.id = op.id /\ result.rep.submitted
CreateReturned ==
    /\ op.name = "create" /\ result.status = "ok"
    /\ pc \in {"idle", "ensure_write"}

\* C6: create(metadata, paths, publish=True) that completes without error
\* returns a deposition with submitted = true, state = "done" and as many
\* files as paths names.
C6_CreatePublished ==
    (CreateReturned /\ op.publish) =>
        /\ result.rep.submitted
        /\ result.rep.state = "done"
        /\ Len(result.rep.files) = Len(op.paths)
        /\ result.rep.id = deposition_data.id

\* A create with two files has returned published.
C6_Witness ==
    /\ CreateReturned /\ op.publish /\ Len(op.paths) = 2
    /\ Len(result.rep.files) = 2 /\ result.rep.state = "done"

\* C7: create with publish=False never issues the publish transition and
\* returns the current representation of the new deposition: submitted =
\* false, state = "unsubmitted", exactly the uploaded files (none for empty
\* paths).
C7_CreateUnpublished ==
    (op.name = "create" /\ ~op.publish) =>
        /\ Requests("publish") = <<>>
        /\ CreateReturned =>
              /\ result.rep.id = deposition_data.id
              /\ result.rep = Rep(result.rep.id)
              /\ ~result.rep.submitted
              /\ result.rep.state = "unsubmitted"
              /\ result.rep.files = op.paths

\* A create without publish has returned its two uploaded files.
C7_Witness ==
    /\ CreateReturned /\ ~op.publish /\ op.paths = <<"B", "A">>
    /\ result.rep.files = <<"B", "A">> /\ ~result.rep.submitted

\* C8: update with publish=False returns the latest state of the deposition
\* that received the uploads, so the returned file list holds every file just
\* uploaded, in the unsubmitted and in the new-version branch.
C8_UpdateReturnsUploadTarget ==
    (UpdateReturned /\ ~op.publish /\ op.paths # <<>>) =>
        /\ result.rep.id = bucket
        /\ Elems(op.paths) \subseteq Elems(result.rep.files)

\* C9: a creation response without a bucket link makes create fail with the
\* protocol error; no file upload and no publish transition is issued.
C9_NoBucketFails ==
    /\ (op.name = "create" /\ log # <<>> /\ log[1].status = "200" /\ log[1].link = 0) =>
          /\ pc = "idle"
          /\ result = [status |-> "error", error |-> "ValueError: no bucket",
                       rep |-> NoRep]
          /\ Len(log) = 1
    /\ result.error = "ValueError: no bucket" =>
          /\ op.name = "create"
          /\ Puts = <<>> /\ Requests("publish") = <<>>
          /\ log = <<Req("POST", "create", 0, "", "200", 0)>>

\* create has failed on a creation response without a bucket link, although
\* files were to be uploaded.
C9_Witness ==
    /\ result.error = "ValueError: no bucket" /\ pc = "idle"
    /\ op.paths # <<>> /\ op.publish
    /\ Len(depositions) = 1

\* Files of the bucket's deposition when the upload loop was entered.
FilesBefore == IF op.name = "create" THEN <<>> ELSE new_deposition_data.files

\* C10: _upload_files takes the paths in the given order and stops at the
\* first non-success response: every file before the failing one has been
\* uploaded, no file after it is attempted, the error is raised and no list of
\* partial results is returned.
C10_UploadStopsAtFirstFailure ==
    /\ Len(Puts) <= Len(op.paths)
    /\ \A j \in 1..Len(Puts) :
          /\ Puts[j].name = op.paths[j]
          /\ Puts[j].id = bucket
          /\ j < Len(Puts) => Puts[j].status = "200"
          /\ Puts[j].status # "200" =>
                /\ log[Len(log)] = Puts[j]
                /\ pc = "idle"
                /\ result = [status |-> "error", error |-> "HTTPError",
                             rep |-> NoRep]
                /\ rv = <<>>
                /\ depositions[bucket].files =
                      FilesBefore \o SubSeq(op.paths, 1, j - 1)
    /\ (pc = "upload") =>
          /\ Len(Puts) = i - 1
          /\ rv = SubSeq(op.paths, 1, i - 1)
          /\ depositions[bucket].files = FilesBefore \o rv
    /\ result.status = "ok" => Len(Puts) = Len(op.paths)

\* The second of two uploads has failed: the first file is in the bucket and
\* the call has raised.
C10_Witness ==
    /\ Len(Puts) = 2 /\ Puts[1].status = "200" /\ Puts[2].status = "500"
    /\ pc = "idle" /\ result.status = "error"
    /\ depositions[bucket].files = FilesBefore \o <<op.paths[1]>>

\* C11: in create and update a failing response ends the call with an error:
\* the failed request is the last one of the call, the call has raised, and
\* no request point of the call is passed twice (one creation POST, one
\* newversion POST, one metadata PUT, one publish POST, one PUT per path in
\* the order of paths, one GET per fetch the operation makes).
C11_FailureEndsCall ==
    op.name \in {"create", "update"} =>
        /\ \A j \in 1..Len(log) :
              log[j].status # "200" =>
                  /\ j = Len(log)
                  /\ pc = "idle"
                  /\ result.status = "error"
                  /\ result.error \in {"HTTPError", "ValueError: res.text"}
        /\ \A what \in {"create", "newversion", "metadata", "publish"} :
              Len(Requests(what)) <= 1
        /\ Len(Puts) <= Len(op.paths)
        /\ \A j \in 1..Len(Puts) : Puts[j].name = op.paths[j]
        /\ Len(Requests("deposition")) <= (IF op.name = "create" THEN 1 ELSE 4)
        /\ op.name = "create" => Len(Requests("deposition")) + Len(Requests("publish")) <= 1

\* An update has raised on the failed publish, after the new version, the
\* metadata PUT and an upload went through; nothing follows the failure.
C11_Witness ==
    /\ op.name = "update" /\ pc = "idle" /\ result.status = "error"
    /\ Len(log) >= 2
    /\ log[Len(log)].what = "publish" /\ log[Len(log)].status = "500"
    /\ Len(Requests("metadata")) = 1 /\ Len(Puts) = 1

\* The rule of the claim: the suffix is incremented only for a previous label
\* that is today's date, a hyphen and one digit, and nothing else.
ClaimedLabel(p) ==
    IF p = Today
    THEN Today \o <<"-", "1">>
    ELSE IF /\ Len(p) = Len(Today) + 2
            /\ SubSeq(p, 1, Len(Today)) = Today
            /\ p[Len(p) - 1] = "-"
            /\ IsNumeric(p[Len(p)])
         THEN Today \o <<"-">> \o IntToStr(CharToInt(p[Len(p)]) + 1)
         ELSE Today

\* C12: for every previous label p the version generator returns <date>-1 when
\* p is today's date, <date>-(n+1) when p is exactly the date, a hyphen and one
\* digit n, and the bare date for every other p, a label that ends in
\* -<digit> after extra characters included.
C12_GeneratorRule ==
    generated # <<>> => generated[1] = ClaimedLabel(old_version)

\* C13: starting from the label equal to today's date, the labels of the
\* first 10 revisions of one day are pairwise distinct and differ from the
\* starting label; a label is repeated at the 11th revision at the earliest.
C13_FirstTenDistinct ==
    old_version = Today =>
        /\ \A k \in 1..Len(generated) : k <= 10 => generated[k] # old_version
        /\ \A a, b \in 1..Len(generated) :
              (a < b /\ b <= 10) => generated[a] # generated[b]

\* Ten revisions with ten labels, <date>-1 to <date>-10, and the 11th is the
\* bare date again.
C13_Witness ==
    /\ old_version = Today /\ Len(generated) = 11
    /\ generated[9] = Today \o <<"-", "9">>
    /\ generated[10] = Today \o <<"-", "1", "0">>
    /\ generated[11] = Today

\* Processes whose ensure found the key unmapped and has returned.
Creators == {p \in Procs : procs[p].pc = "done" /\ procs[p].deposition_id = 0}

\* C14: ensure calls are not mutually excluded: of two processes that call
\* ensure for one unmapped key both can read the key as absent; each process
\* that did and has returned has created and published a deposition of its
\* own, and the key holds the id that was written last, the other id being
\* lost to the configuration.
C14_ConcurrentEnsureCreatesTwice ==
    /\ \A p \in Creators :
          /\ procs[p].id \in 1..Len(depositions)
          /\ depositions[procs[p].id].submitted
          /\ depositions[procs[p].id].concept = procs[p].id
          /\ procs[p].wrote \in 1..writes["k1"]
          /\ procs[p].wrote = writes["k1"] <=> config[SelfModule]["k1"] = procs[p].id
    /\ \A p, q \in Creators : p # q => procs[p].id # procs[q].id
    /\ writes["k1"] = Cardinality({p \in Procs : procs[p].wrote # 0})

\* Both processes read the key as absent, both created and published: two
\* depositions of two lineages exist and the key holds the id of process 1,
\* which wrote last, although process 2 created its deposition later.
C14_Witness ==
    /\ Creators = {1, 2}
    /\ Len(depositions) = 2
    /\ depositions[1].submitted /\ depositions[2].submitted
    /\ depositions[1].concept # depositions[2].concept
    /\ procs[1].id = 1 /\ procs[2].id = 2
    /\ procs[2].wrote = 1 /\ procs[1].wrote = 2
    /\ config[SelfModule]["k1"] = 1

\* The file keys of the record a download call reads.
RecordFiles == depositions[SegmentId(dl.record_id)].files

RecordFetched(status) == Fetched("record", dl.record_id, 0, status)

\* C15: download(record_id, name) on a record without a file entry of that
\* key raises the not-found error once the record has been fetched; it
\* requests no file content and creates or changes no local file.
C15_DownloadMissingName ==
    (dl.op = "download" /\ dl.name \notin Elems(RecordFiles)) =>
        /\ dl.fetched = 0
        /\ dl.stored = 0
        /\ Len(dl.log) <= 1
        /\ dl.pc = "idle" =>
              /\ dl.status = "error"
              /\ dl.log = <<RecordFetched("200")>> <=> dl.error = "FileNotFoundError"
              /\ dl.log = <<RecordFetched("500")>> <=> dl.error = "HTTPError"

\* download of name "B" from a record that holds only "A" has raised the
\* not-found error after the one record request.
C15_Witness ==
    /\ dl.op = "download" /\ dl.pc = "idle" /\ dl.name = "B"
    /\ RecordFiles = <<"A">>
    /\ dl.error = "FileNotFoundError"
    /\ dl.log = <<RecordFetched("200")>>
    /\ dl.fetched = 0 /\ dl.stored = 0

\* C16: download(record_id, name) on a path not yet in the cache, followed by
\* download(record_id, name) again: the first call fetches the content once,
\* the second with force=false fetches nothing (its only request is the one
\* for the record) and returns the same local path; with force=true the
\* second call fetches the content again.
C16_SecondDownloadIsCacheHit ==
    (/\ dl.op = "download" /\ dl.pc = "idle" /\ dl.status = "ok"
     /\ dl_prev.op = "download" /\ dl_prev.status = "ok"
     /\ dl_prev.record_id = dl.record_id /\ dl_prev.name = dl.name
     /\ dl_prev.cold /\ ~dl_prev.force) =>
        /\ dl_prev.fetched = 1
        /\ dl.rv = dl_prev.rv
        /\ dl.rv[1] \in DOMAIN cache
        /\ ~dl.force => dl.fetched = 0 /\ dl.log = <<RecordFetched("200")>>
        /\ dl.force => dl.fetched >= 1

\* The second download of file "A" of record 1 has returned the path of the
\* first without a fetch.
C16_Witness ==
    /\ dl.op = "download" /\ dl.pc = "idle" /\ dl.status = "ok" /\ ~dl.force
    /\ dl_prev.op = "download" /\ dl_prev.status = "ok" /\ ~dl_prev.force
    /\ dl_prev.cold /\ dl_prev.fetched = 1
    /\ dl.record_id = "1" /\ dl_prev.record_id = "1"
    /\ dl.name = "A" /\ dl_prev.name = "A"
    /\ dl.fetched = 0 /\ dl.rv = dl_prev.rv

\* The id of the most current published version of r's lineage, as a caller
\* writes it.
LatestOf(r) == IdSegment(LatestPublished(depositions[r].concept))

C18_DownloadAllDistinctPaths ==
    dl.op = "download_all" =>
        /\ \A a, b \in 1..Len(workers) :
              (/\ a # b
               /\ workers[a].pc = "fetching"
               /\ workers[b].pc = "fetching") =>
                  workers[a].path # workers[b].path
        /\ (dl.pc = "idle" /\ dl.status = "ok") =>
              Len(dl.rv) = Len(RecordFiles)

\* C19: constructing Metadata fails when upload_type is "publication" and
\* publication_type is absent, when publication_type is set and upload_type
\* is not "publication", and when upload_type is "image" and image_type is
\* absent; with the required companion present (and valid fields) it succeeds.
C19_TypeCompanionsRequired ==
    constructed # "none" =>
        /\ (metadata.upload_type = "publication"
            /\ metadata.publication_type = None) => constructed # "ok"
        /\ (metadata.publication_type # None
            /\ metadata.upload_type # "publication") => constructed # "ok"
        /\ (metadata.upload_type = "image"
            /\ metadata.image_type = None) => constructed # "ok"
        /\ (FieldsValid(metadata) /\ __post_init__(metadata) = "ok") =>
              constructed = "ok"

\* C20: constructing Metadata fails when access_right is "embargoed" and
\* embargo_date is absent, and when access_right is "open" or "embargoed" and
\* license is absent; with the companion present (and valid fields) it
\* succeeds.
C20_AccessCompanionsRequired ==
    constructed # "none" =>
        /\ (metadata.access_right = "embargoed"
            /\ metadata.embargo_date = None) => constructed # "ok"
        /\ (metadata.access_right \in {"open", "embargoed"}
            /\ metadata.license = None) => constructed # "ok"
        /\ (/\ FieldsValid(metadata)
            /\ metadata.access_right = "embargoed"
            /\ metadata.embargo_date # None /\ metadata.license # None
            /\ __post_init__(metadata) = "ok") => constructed = "ok"

\* The Metadata fields of a posted body; a key that is not in it reads None.
PostedFields(json) ==
    [k \in DOMAIN NoMetadata |-> IF k \in DOMAIN json THEN json[k] ELSE None]

\* C21: no metadata that violates a Metadata invariant reaches the server:
\* whether create was given a Metadata object or a raw mapping, every body of
\* a creation POST satisfies the field types and the companion rules.
C21_NoInvalidMetadataPosted ==
    \A j \in 1..Len(posted) :
        /\ FieldsValid(PostedFields(posted[j].json))
        /\ __post_init__(PostedFields(posted[j].json)) = "ok"

\* C22: the driver offers update_metadata(deposition_id, data, publish): a call
\* on a published deposition fails only when one of its requests failed, and
\* its result has submitted = true, carries the new value of data, and has
\* state "done" with publish = true and "inprogress" with publish = false.
C22_UpdateMetadataOffered ==
    (/\ op.name = "update_metadata" /\ pc = "idle"
     /\ depositions[op.id].submitted) =>
        /\ result.status = "error" => \E j \in 1..Len(log) : log[j].status # "200"
        /\ result.status = "ok" =>
              /\ result.rep.submitted
              /\ result.rep.version = op.version
              /\ result.rep.state = IF op.publish THEN "done" ELSE "inprogress"

\* The place of the j-th request of the running call in its operation's order;
\* 0 for the repeated fetches of the original deposition that update issues
\* besides the first one.
Stage(j) ==
    LET r == log[j]
    IN IF r.what = "create" THEN 1
       ELSE IF r.what = "newversion" THEN 2
       ELSE IF r.what = "metadata" THEN 4
       ELSE IF r.what = "file" THEN 5
       ELSE IF r.what = "publish" THEN 6
       ELSE IF op.name = "create" THEN 6
       ELSE IF j = 1 THEN 1
       ELSE IF r.id # op.id THEN 3
       ELSE 0

\* C23: the requests of one create or update are strictly ordered. create:
\* creation POST, the file PUTs in the order of paths, then publish. update
\* of a published deposition: deposition GET, new-version POST, GET of the new
\* draft, metadata PUT, the file PUTs, then publish; no step is issued before
\* all steps ahead of it. Every file PUT goes to a bucket link an earlier
\* response of the same call returned, and publish follows all uploads.
C23_CallsStrictlyOrdered ==
    op.name \in {"create", "update"} =>
        LET n == Len(log)
            stage == [j \in 1..n |-> Stage(j)]
            before(j) == {stage[k] : k \in 1..j}
        IN /\ \A a, b \in 1..n :
                 (a < b /\ stage[a] # 0 /\ stage[b] # 0) =>
                     /\ stage[a] <= stage[b]
                     /\ stage[a] = stage[b] => log[a].what = "file"
           /\ n > 0 => stage[1] = 1
           /\ \A j \in 1..Len(Puts) : Puts[j].name = op.paths[j]
           /\ \A j \in 1..n :
                 /\ log[j].what = "file" =>
                       \E k \in 1..(j - 1) :
                           /\ log[k].status = "200"
                           /\ \/ log[k].what = "create" /\ log[k].link # 0
                                 /\ log[k].link = log[j].id
                              \/ log[k].what = "deposition"
                                 /\ Rep(log[k].id).bucket = log[j].id
                 /\ log[j].what = "publish" =>
                       /\ j = n
                       /\ Len(SelectSeq(log, LAMBDA r : r.what = "file"
                                                        /\ r.status = "200"))
                             = Len(op.paths)
                 /\ (op.name = "update" /\ deposition_data.submitted
                     /\ stage[j] \in 3..6) =>
                       (2..(stage[j] - 1)) \ {5} \subseteq before(j)
                 /\ (op.name = "create" /\ stage[j] > 1) => 1 \in before(j)

StagesOf(n) == {Stage(j) : j \in 1..n} \ {0}

\* An update of a published deposition with two paths has gone through all
\* its steps and published.
C23_Witness ==
    /\ Returned /\ op.name = "update" /\ op.publish
    /\ deposition_data.submitted
    /\ Len(op.paths) = 2 /\ Len(Puts) = 2
    /\ StagesOf(Len(log)) = 1..6

\* C24: a 400 answer to the creation POST is reported as its own error, which
\* carries the response body; every other non-success status of that POST is
\* raised as the HTTP status error; in both cases the POST is the last
\* request of the call: no upload and no publish follows.
C24_CreationErrorsDistinguished ==
    (op.name = "create" /\ Len(log) > 0 /\ log[1].status # "200") =>
        /\ log[1].what = "create"
        /\ pc = "idle" /\ Len(log) = 1
        /\ result.status = "error"
        /\ result.error = IF log[1].status = "400"
                          THEN "ValueError: res.text" ELSE "HTTPError"
        /\ Requests("file") = <<>> /\ Requests("publish") = <<>>

\* A create was answered 400 after an earlier call had made a deposition.
C24_Witness ==
    /\ op.name = "create" /\ calls = 2 /\ Len(depositions) > 0
    /\ log = <<Req("POST", "create", 0, "", "400", 0)>>
    /\ result.error = "ValueError: res.text"

\* The namespace of the mode the driver in use is not in.
OtherNamespace == IF sandbox THEN "zenodo" ELSE "zenodo:sandbox"

OwnNamespace == IF sandbox THEN "zenodo:sandbox" ELSE "zenodo"

\* C25: a sandbox driver reads and writes the ensure mapping only in the
\* sandbox namespace and a production driver only in the production
\* namespace: whether ensure creates or updates depends on the key in its own
\* namespace alone, and no step of an ensure changes the other namespace.
C25_NamespacesSeparate ==
    /\ [](op.key # NoKey =>
            /\ Running =>
                  op.name = IF config[OwnNamespace][op.key] = 0
                            THEN "create" ELSE "update"
            /\ (Running /\ op.name = "update") =>
                  op.id = config[OwnNamespace][op.key]
            /\ pc = "ensure_write" => config[OwnNamespace][op.key] = 0)
    /\ [][/\ config'[OtherNamespace] = config[OtherNamespace]
          /\ config' # config =>
                config'[OwnNamespace][op.key] = result.rep.id]_vars

\* The key is mapped in both namespaces, to different depositions: the sandbox
\* driver created one of its own although the production key was mapped.
C25_Witness ==
    /\ Returned /\ sandbox /\ op.key = "k1" /\ op.name = "create"
    /\ config["zenodo"]["k1"] = 1
    /\ config["zenodo:sandbox"]["k1"] = 2

\* create has completed in full: the creation POST, a PUT for every path and
\* the publish POST were all answered 200.
CreateCompleted ==
    /\ Len(log) = Len(op.paths) + 2
    /\ \A j \in 1..Len(log) : log[j].status = "200"
    /\ log[1].what = "create" /\ log[Len(log)].what = "publish"
    /\ \A j \in 1..Len(op.paths) : log[j + 1].what = "file"

EnsureCreateFailed ==
    /\ op.key # NoKey /\ op.name = "create"
    /\ pc = "idle" /\ result.status = "error"

\* C26: ensure writes the mapping only after create has completed in full. If
\* create fails, also after the server has created the draft, nothing is
\* written and the key stays unmapped, and the next ensure for that key
\* performs create again.
C26_WriteOnlyAfterFullCreate ==
    /\ [](/\ pc = "ensure_write" => CreateCompleted
          /\ EnsureCreateFailed =>
                /\ config[SelfModule][op.key] = 0
                /\ writes[op.key] = 0)
    /\ [][/\ (config' # config \/ writes' # writes) =>
                pc = "ensure_write" /\ CreateCompleted
          /\ (EnsureCreateFailed /\ calls' # calls /\ op'.key = op.key) =>
                op'.name = "create" /\ pc' = "create_post"]_vars

\* The first ensure failed after the server had created its draft, which is
\* still there, unpublished; the second ensure created and published another
\* deposition and only that id was written.
C26_Witness ==
    /\ Returned /\ op.key = "k1" /\ op.name = "create" /\ calls = 2
    /\ Len(depositions) = 2
    /\ ~depositions[1].submitted /\ depositions[2].submitted
    /\ config[SelfModule]["k1"] = 2 /\ writes["k1"] = 1

\* C27: an ensure that finds the key mapped never writes the mapping: a
\* mapped key keeps its id, every write belongs to an ensure that found the
\* key unmapped and stores the id its create returned, and the stored id is
\* that of the created deposition, the first of its lineage, also when
\* updates have since published new versions under new ids.
C27_MappedKeyNeverRewritten ==
    /\ [](\A k \in Keys :
            /\ writes[k] <= 1
            /\ config[SelfModule][k] # 0 =>
                  /\ writes[k] = 1
                  /\ config[SelfModule][k] \in 1..Len(depositions)
                  /\ depositions[config[SelfModule][k]].concept
                        = config[SelfModule][k])
    /\ [][/\ \A k \in Keys :
                config[SelfModule][k] # 0 =>
                    /\ config'[SelfModule][k] = config[SelfModule][k]
                    /\ writes'[k] = writes[k]
          /\ (op.key # NoKey /\ op.name = "update" /\ calls' = calls) =>
                config' = config /\ writes' = writes
          /\ config' # config =>
                /\ op.name = "create" /\ result.status = "ok"
                /\ config'[SelfModule][op.key] = result.rep.id
                /\ log[1].link = result.rep.id]_vars

\* The second ensure found the key mapped to deposition 1, updated it and
\* returned the new version, deposition 2; the key still holds 1.
C27_Witness ==
    /\ Returned /\ op.key = "k1" /\ op.name = "update"
    /\ result.rep.id = 2 /\ depositions[2].submitted
    /\ depositions[2].concept = 1
    /\ config[SelfModule]["k1"] = 1 /\ writes["k1"] = 1

\* The depositions of the lineage the running update works on.
UpdatedLineage ==
    {d \in 1..Len(depositions) :
        depositions[d].concept = depositions[op.id].concept}

\* C28: when ensure finds the key mapped, data is not used: whatever title
\* and label data holds, every version and draft of the lineage keeps the
\* title of the version before it, the metadata PUT sends what was fetched
\* from the new draft, and the returned deposition differs from the previous
\* version's metadata only in the label, which is generated from a stored
\* label (and in the publication date).
C28_MappedEnsureIgnoresData ==
    (op.key # NoKey /\ op.name = "update") =>
        /\ \A d \in UpdatedLineage :
              depositions[d].title = depositions[op.id].title
        /\ pc = "usdm_put" =>
              /\ new_deposition_data.title = depositions[op.id].title
              /\ new_deposition_data.version
                    = _prepare_new_version(depositions[op.id].version)
        /\ Returned =>
              /\ result.rep.id \in UpdatedLineage \ {op.id}
              /\ result.rep.title = depositions[op.id].title
              /\ result.rep.version
                    = _prepare_new_version(depositions[op.id].version)

\* The second ensure was given another title and another label than the
\* first; the version it published has the first one's title and the label
\* generated from the first one's.
C28_Witness ==
    /\ Returned /\ op.key = "k1" /\ op.name = "update"
    /\ op.title = "T2" /\ op.version = OtherLabel
    /\ depositions[1].title = "T1" /\ depositions[1].version = Today
    /\ result.rep.id = 2
    /\ result.rep.title = "T1"
    /\ result.rep.version = Today \o <<"-", "1">>

\* C29: an update of a published deposition leaves that version as it was
\* when the update fetched it: every file PUT goes to the bucket of the new
\* draft, the metadata PUT and the publish POST address the new draft's id,
\* never the original id, whether the update completes or fails part-way.
C29_PublishedVersionUnchanged ==
    (op.name = "update" /\ deposition_data.submitted) =>
        /\ deposition_data.id = op.id
        /\ Rep(op.id) = deposition_data
        /\ \A j \in 1..Len(log) :
              log[j].what \in {"file", "metadata", "publish"} =>
                  /\ log[j].id # op.id
                  /\ log[j].id = new_deposition_id
                  /\ Rep(new_deposition_id).bucket = new_deposition_id
                  /\ depositions[log[j].id].concept = deposition_data.concept

\* The update put its metadata and a file to the new draft and then failed at
\* the publish: the draft holds the file, the published version does not.
C29_Witness ==
    /\ op.name = "update" /\ deposition_data.submitted
    /\ pc = "idle" /\ result.status = "error"
    /\ Len(log) > 0 /\ log[Len(log)].what = "publish"
    /\ Len(Puts) = 1
    /\ Puts[1].name \in Elems(depositions[new_deposition_id].files)
    /\ Puts[1].name \notin Elems(depositions[op.id].files)
    /\ ~depositions[new_deposition_id].submitted

\* What the download link url serves.
Content(url) == blobs[url[1]][url[2]]

\* C30: with the default path policy the local file download(record_id, name,
\* force=false) returns holds the content of that record's file, never the
\* cached content of another record of the lineage, whatever labels the
\* records carry (equal labels and no label, stored as "v1", included).
C30_DownloadHoldsOwnContent ==
    (/\ dl.op = "download" /\ ~dl.force
     /\ dl.pc = "idle" /\ dl.status = "ok") =>
        LET r == SegmentId(dl.record_id)
            j == NextMatch(depositions[r].files, dl.name, 1)
        IN /\ dl.rv = <<LocalPath(r, dl.name)>>
           /\ dl.rv[1] \in DOMAIN cache
           /\ Content(cache[dl.rv[1]]) = Content(Url(r, j))

====
